---------------------------- MODULE Spec2Model ----------------------------
(***************************************************************************)
(* Model of zenshin's progress pipeline (the most complete variant of the  *)
(* script): the event handlers main, submitKey and changeStart, and the    *)
(* body of processData (history builder, computeForecasts, gap segmenter,  *)
(* speed estimator, makeChart).                                            *)
(*                                                                         *)
(* Time.  A Date is a whole number of hours since 1 January 00:00 of a     *)
(* non-leap year (UTC, every modelled year non-leap); the Invalid Date is  *)
(* NaT.  A Date holds whole units only, as the JavaScript Date holds whole *)
(* milliseconds, so a computed Date is truncated to the unit.              *)
(* Numbers.  Level indices and hour/day/month counts are integers, NaN is  *)
(* the number NaN; a running average and a speed are exact fractions       *)
(* <<numerator, denominator>>; null is Null and undefined is Undefined.    *)
(***************************************************************************)
EXTENDS Integers, Sequences, FiniteSets, TLC

(***************************************************************************)
(* Bounds of the model.                                                    *)
(***************************************************************************)
\* The longest list of level progressions the API delivers.
MaxLen == 3

(***************************************************************************)
(* Program constants.                                                      *)
(***************************************************************************)
ALPHAS == << <<1, 2>>, <<1, 4>> >>
MAX_LEVEL == 60
GAP_MONTHS == 6
SKIP_MONTHS == 3
\* "if (item.y < 3) return []": the speed estimator's low-level cutoff.
LOW_LEVEL == 3
\* "differenceInDays(item.x, prev.x) / 30": days in a speed month.
SPEED_MONTH_DAYS == 30

(***************************************************************************)
(* JavaScript values.                                                      *)
(***************************************************************************)
\* A field read from the gap marker {} is undefined.
Undefined == -2
\* The time value of an Invalid Date (what parseISO gives a malformed string).
NaT == -1
\* The number NaN (a difference that involves an Invalid Date).
NaN == -1000000
\* null, where a string is expected: a passed_at the API leaves null.
Null == -5
\* null, where an average is expected: avgHours before its first update.
NullAvg == <<>>
\* The empty value of the start-date input, and a string that is no ISO date.
EmptyStr == -3
Malformed == -4

\* a < b and a >= b on numbers: false as soon as one side is NaN or undefined.
IsNumber(a) == a # NaN /\ a # Undefined
LtJS(a, b) == IsNumber(a) /\ IsNumber(b) /\ a < b
GeJS(a, b) == IsNumber(a) /\ IsNumber(b) /\ a >= b
\* a >= b on two Dates (compared by time value; NaN compares false).
DateGe(a, b) == a # NaT /\ b # NaT /\ a >= b
\* Integer part of n / d, towards zero (d > 0).
Trunc(n, d) == IF n >= 0 THEN n \div d ELSE -((-n) \div d)

(***************************************************************************)
(* date-fns, on the model's calendar.                                      *)
(***************************************************************************)
HoursPerDay == 24
DaysPerYear == 365
MonthsPerYear == 12
\* Day of the year on which each month starts (non-leap year).
MonthStart == <<0, 31, 59, 90, 120, 151, 181, 212, 243, 273, 304, 334>>

DayOfYear(t) == (t \div HoursPerDay) % DaysPerYear
YearOf(t) == (t \div HoursPerDay) \div DaysPerYear
MonthOf(t) ==
    CHOOSE m \in 1..MonthsPerYear :
        /\ MonthStart[m] <= DayOfYear(t)
        /\ (m = MonthsPerYear \/ DayOfYear(t) < MonthStart[m + 1])
\* Months since the epoch, and hours since the start of the month.
MonthIndex(t) == MonthsPerYear * YearOf(t) + (MonthOf(t) - 1)
HourOfMonth(t) ==
    t - (YearOf(t) * DaysPerYear + MonthStart[MonthOf(t)]) * HoursPerDay

\* parseISO: the Date a well-formed string denotes, else the Invalid Date.
ParseISO(s) == IF s >= 0 THEN s ELSE NaT

\* differenceInHours(left, right): whole hours, NaN on an Invalid Date.
DifferenceInHours(left, right) ==
    IF left = NaT \/ right = NaT THEN NaN ELSE left - right

\* differenceInDays(left, right): full days, NaN on an Invalid Date.
DifferenceInDays(left, right) ==
    IF left = NaT \/ right = NaT THEN NaN ELSE Trunc(left - right, HoursPerDay)

\* Full months from the earlier to the later of two valid Dates: the calendar
\* months between them, less one when the last of them is not complete.
\* (Exact for days of the month up to the 28th, which is what Times holds.)
FullMonths(later, earlier) ==
    LET cal == MonthIndex(later) - MonthIndex(earlier)
    IN  IF cal >= 1 /\ HourOfMonth(later) < HourOfMonth(earlier)
        THEN cal - 1 ELSE cal

\* differenceInMonths(left, right): full months, signed, NaN on an Invalid Date.
DifferenceInMonths(left, right) ==
    IF left = NaT \/ right = NaT THEN NaN
    ELSE IF left >= right THEN FullMonths(left, right)
    ELSE -FullMonths(right, left)

\* max([a, b]) of date-fns: the later Date, the Invalid Date if either is.
MaxDates(a, b) ==
    IF a = NaT \/ b = NaT THEN NaT ELSE IF a >= b THEN a ELSE b

\* addHours(date, amount), amount a fraction of hours: a Date holds whole
\* units, so the sum is truncated to the unit.
AddHours(date, amount) ==
    IF date = NaT THEN NaT ELSE date + Trunc(amount[1], amount[2])

(***************************************************************************)
(* Inputs.                                                                 *)
(***************************************************************************)
\* Instants the API can report: 1 Jan 00:00, 1 Jan 13:00, 31 Jan 00:00
\* (30 days), 1 May 00:00 (4 months), 1 Aug 00:00 (7 months).
Times == {0, 13, 720, 2880, 5088}
\* Levels of a progression record.
Levels == {1, 2, 4}
\* unlocked_at, passed_at and the start-date input, as the strings they are.
UnlockStrs == Times \cup {Malformed}
PassedStrs == {Null, 5088, Malformed}
\* The start dates tried: none, 31 Jan, and 8 Sep (later than every instant).
StartStrs == {EmptyStr, 720, 6000}

\* Truthiness of passed_at: null is falsy, every modelled string is not empty.
Truthy(s) == s # Null

\* The API delivers the progressions in the order they were created: the
\* valid unlock times do not decrease along the list, and a level is passed
\* no earlier than it was unlocked.
Chronological(levels) ==
    /\ \A a, b \in 1..Len(levels) :
          (a < b /\ levels[a].unlocked_at >= 0 /\ levels[b].unlocked_at >= 0)
              => levels[a].unlocked_at <= levels[b].unlocked_at
    /\ \A a \in 1..Len(levels) :
          (levels[a].passed_at >= 0
              /\ levels[a].unlocked_at >= 0)
              => levels[a].unlocked_at <= levels[a].passed_at

\* Only the last record's passed_at is ever read; the others are left null.
Records(last) ==
    [level : Levels, unlocked_at : UnlockStrs,
     passed_at : IF last THEN PassedStrs ELSE {Null}]
(***************************************************************************)
(* Points, gap markers and fractions.                                      *)
(***************************************************************************)
Point(x, y) == [x |-> x, y |-> y]
\* The gap marker {}: reading either field gives undefined.
Gap == [x |-> Undefined, y |-> Undefined]
IsGap(item) == item.x = Undefined
\* The Points of a series, its gap markers left out.
RECURSIVE RemoveGaps(_)
RemoveGaps(series) ==
    IF series = <<>> THEN <<>>
    ELSE IF IsGap(Head(series)) THEN RemoveGaps(Tail(series))
    ELSE <<Head(series)>> \o RemoveGaps(Tail(series))

\* A number as a fraction; null * n is 0 in JavaScript.
Frac(n) == <<n, 1>>
ToNumber(avg) == IF avg = NullAvg THEN Frac(0) ELSE avg
FracTimes(f, n) == <<f[1] * n, f[2]>>
\* !old: null and 0 are falsy.
Falsy(old) == old = NullAvg \/ old[1] = 0

(***************************************************************************)
(* processData: the history builder.                                       *)
(***************************************************************************)
\* levels.map(...): one Point per record, x its unlock time, y its level - 1.
MapLevels(levels) ==
    [k \in 1..Len(levels) |->
        Point(ParseISO(levels[k].unlocked_at), levels[k].level - 1)]

\* startDate: the later of the cutoff and the first Point, or the first Point.
StartDate(startDateStr, mapped) ==
    IF startDateStr # EmptyStr
    THEN MaxDates(ParseISO(startDateStr), mapped[1].x)
    ELSE mapped[1].x

\* FilterFrom with "x > startDate".
FilterFromStrict(mapped, startDate) ==
    LET Keep(p) == DateGe(p.x, startDate) /\ p.x # startDate
    IN  SelectSeq(mapped, Keep)

\* history.filter(({ x }) => x >= startDate)
FilterFrom(mapped, startDate) ==
    LET Keep(p) == DateGe(p.x, startDate)
    IN  SelectSeq(mapped, Keep)

\* The completion Point pushed when the last record has a passed_at.
PushPassed(hist, last) ==
    IF Truthy(last.passed_at)
    THEN Append(hist, Point(ParseISO(last.passed_at), last.level))
    ELSE hist

\* The history handed to computeForecasts (levels not empty).
BuildHistory(levels, startDateStr) ==
    LET mapped == MapLevels(levels)
    IN  PushPassed(FilterFrom(mapped, StartDate(startDateStr, mapped)),
                   levels[Len(levels)])

(***************************************************************************)
(* computeForecasts.                                                       *)
(***************************************************************************)
\* One average's update by a pair that is not skipped.
Smooth(old, k, hours) ==
    IF Falsy(old) THEN Frac(hours)
    ELSE LET alpha == ALPHAS[k]
         IN  << alpha[1] * hours * old[2] + (alpha[2] - alpha[1]) * old[1],
                alpha[2] * old[2] >>

\* PairCounts with "months <= SKIP_MONTHS".
PairCountsInclusive(cur, prev) ==
    /\ cur # Undefined
    /\ prev # Undefined
    /\ LtJS(DifferenceInMonths(cur, prev), SKIP_MONTHS + 1)

\* "cur && prev && months < SKIP_MONTHS": a Date object is truthy.
PairCounts(cur, prev) ==
    /\ cur # Undefined
    /\ prev # Undefined
    /\ LtJS(DifferenceInMonths(cur, prev), SKIP_MONTHS)

\* The loop body for the pair (hist[i - 1], hist[i]).
ForecastPair(avg, hist, i) ==
    LET cur == hist[i].x
        prev == hist[i - 1].x
        hours == DifferenceInHours(cur, prev)
    IN  IF PairCounts(cur, prev)
        THEN [k \in 1..2 |-> Smooth(avg[k], k, hours)]
        ELSE avg

\* ForecastLines with the levels to do counted from last.y + 1.
ForecastLinesLevelOffByOne(avg, hist) ==
    LET last == hist[Len(hist)]
        levelsToDo == MAX_LEVEL - (last.y + 1)
    IN  [k \in 1..2 |->
            << Point(last.x, last.y),
               Point(AddHours(last.x, FracTimes(ToNumber(avg[k]), levelsToDo)),
                     MAX_LEVEL) >>]

\* The two forecast lines returned (hist not empty).
ForecastLines(avg, hist) ==
    LET last == hist[Len(hist)]
        levelsToDo == MAX_LEVEL - last.y
    IN  [k \in 1..2 |->
            << Point(last.x, last.y),
               Point(AddHours(last.x, FracTimes(ToNumber(avg[k]), levelsToDo)),
                     MAX_LEVEL) >>]

(***************************************************************************)
(* processData: the gap segmenter.                                         *)
(***************************************************************************)
\* SegmentItem with "> GAP_MONTHS" for ">= GAP_MONTHS".
SegmentItemStrictGap(hist, i) ==
    IF i = 1 THEN <<hist[i]>>
    ELSE IF LtJS(hist[i].y, hist[i - 1].y) THEN <<Gap, hist[i]>>
    ELSE IF GeJS(DifferenceInMonths(hist[i].x, hist[i - 1].x), GAP_MONTHS + 1)
    THEN <<Gap, hist[i]>>
    ELSE <<hist[i]>>

\* SegmentItem returning [{}] for [{}, item] at a level regression.
SegmentItemDropsItem(hist, i) ==
    IF i = 1 THEN <<hist[i]>>
    ELSE IF LtJS(hist[i].y, hist[i - 1].y) THEN <<Gap>>
    ELSE IF GeJS(DifferenceInMonths(hist[i].x, hist[i - 1].x), GAP_MONTHS)
    THEN <<Gap, hist[i]>>
    ELSE <<hist[i]>>

\* SegmentItem returning [item, {}] for [{}, item].
SegmentItemGapAfter(hist, i) ==
    IF i = 1 THEN <<hist[i]>>
    ELSE IF LtJS(hist[i].y, hist[i - 1].y) THEN <<hist[i], Gap>>
    ELSE IF GeJS(DifferenceInMonths(hist[i].x, hist[i - 1].x), GAP_MONTHS)
    THEN <<hist[i], Gap>>
    ELSE <<hist[i]>>

\* What the flatMap callback returns for hist[i].
SegmentItem(hist, i) ==
    IF i = 1 THEN <<hist[i]>>
    ELSE IF LtJS(hist[i].y, hist[i - 1].y) THEN <<Gap, hist[i]>>
    ELSE IF GeJS(DifferenceInMonths(hist[i].x, hist[i - 1].x), GAP_MONTHS)
    THEN <<Gap, hist[i]>>
    ELSE <<hist[i]>>

RECURSIVE SegmentFrom(_, _)
SegmentFrom(hist, i) ==
    IF i > Len(hist) THEN <<>>
    ELSE SegmentItem(hist, i) \o SegmentFrom(hist, i + 1)
\* history.flatMap(...)
Segmenter(hist) == SegmentFrom(hist, 1)

(***************************************************************************)
(* processData: the speed estimator.                                       *)
(***************************************************************************)
\* new Date((a.getTime() + b.getTime()) / 2): a Date holds whole units.
AvgDate(a, b) == IF a = NaT \/ b = NaT THEN NaT ELSE Trunc(a + b, 2)

\* dy_levels / (days / 30) as a fraction; a denominator 0 is a result that
\* is not finite, and NaN days give NaN (0 / 0).
SpeedOf(dy, days) ==
    IF days = NaN THEN <<0, 0>> ELSE <<dy * SPEED_MONTH_DAYS, days>>

\* SpeedItem without "if (prev.x === undefined) return []".
SpeedItemNoPrevGapCheck(hist, i) ==
    IF i = 1 THEN <<>>
    ELSE IF hist[i].x = Undefined THEN <<Gap>>
    ELSE IF LtJS(hist[i].y, LOW_LEVEL) THEN <<>>
    ELSE << [x |-> AvgDate(hist[i - 1].x, hist[i].x),
             y |-> SpeedOf(hist[i].y - hist[i - 1].y,
                           DifferenceInDays(hist[i].x, hist[i - 1].x))] >>

\* SpeedItem with the sample placed at item.x, not at the midpoint.
SpeedItemAtCur(hist, i) ==
    IF i = 1 THEN <<>>
    ELSE IF hist[i].x = Undefined THEN <<Gap>>
    ELSE IF LtJS(hist[i].y, LOW_LEVEL) THEN <<>>
    ELSE IF hist[i - 1].x = Undefined THEN <<>>
    ELSE << [x |-> hist[i].x,
             y |-> SpeedOf(hist[i].y - hist[i - 1].y,
                           DifferenceInDays(hist[i].x, hist[i - 1].x))] >>

\* What the flatMap callback returns for hist[i].
SpeedItem(hist, i) ==
    IF i = 1 THEN <<>>
    ELSE IF hist[i].x = Undefined THEN <<Gap>>
    ELSE IF LtJS(hist[i].y, LOW_LEVEL) THEN <<>>
    ELSE IF hist[i - 1].x = Undefined THEN <<>>
    ELSE << [x |-> AvgDate(hist[i - 1].x, hist[i].x),
             y |-> SpeedOf(hist[i].y - hist[i - 1].y,
                           DifferenceInDays(hist[i].x, hist[i - 1].x))] >>

(***************************************************************************)
(* makeChart: the later end of the two forecasts, from which the time axis *)
(* takes its maximum; the rest of makeChart configures the rendering.      *)
(***************************************************************************)
ForecastLimit(fcs) == MaxDates(fcs[1][2].x, fcs[2][2].x)

(***************************************************************************)
(* State.                                                                  *)
(***************************************************************************)
VARIABLES
    pc,            \* where the script is: "load", "idle", a stage of
                   \* processData, "done", or "error" (an exception thrown)
    data,          \* the global data: <<>> (undefined) or <<levels>>
    startDateStr,  \* the value of the startDate input
    history,       \* processData's history
    i,             \* the index of the loop or callback in progress
    avgHours,      \* computeForecasts' avgHours
    forecasts,     \* processData's forecasts (<<>> before they are returned)
    speed,         \* processData's speed, as far as it is built
    limit          \* makeChart's limit

vars == <<pc, data, startDateStr, history, i, avgHours, forecasts, speed,
          limit>>

\* The script waits for an event.
Quiet == {"idle", "done", "error"}

Init ==
    /\ pc = "load"
    /\ data = <<>>
    /\ startDateStr = EmptyStr
    /\ history = <<>>
    /\ i = 0
    /\ avgHours = <<NullAvg, NullAvg>>
    /\ forecasts = <<>>
    /\ speed = <<>>
    /\ limit = Undefined

\* A call of processData begins: its locals are fresh.
CallProcessData ==
    /\ pc' = "build"
    /\ history' = <<>>
    /\ i' = 0
    /\ avgHours' = <<NullAvg, NullAvg>>
    /\ forecasts' = <<>>
    /\ speed' = <<>>
    /\ limit' = Undefined

Locals == <<history, i, avgHours, forecasts, speed, limit>>

(***************************************************************************)
(* Event handlers.  processData has no await: once called it runs to its   *)
(* end (or to an exception) before another handler starts, so no handler   *)
(* is enabled while pc is a stage of processData.                          *)
(***************************************************************************)
\* fetchData: data becomes the list the API delivers, of any length up to
\* MaxLen, in chronological order.
FetchData ==
    \E n \in 0..MaxLen :
        IF n = 0 THEN data' = << <<>> >>
        ELSE \E front \in [1..(n - 1) -> Records(FALSE)], rec \in Records(TRUE) :
                /\ Chronological(Append(front, rec))
                /\ data' = <<Append(front, rec)>>

\* main without a stored API key: only the start date is restored.
MainNoKey ==
    /\ pc = "load"
    /\ \E s \in StartStrs : startDateStr' = s
    /\ pc' = "idle"
    /\ UNCHANGED data
    /\ UNCHANGED Locals

\* main with a stored API key: fetch, then processData.
MainWithKey ==
    /\ pc = "load"
    /\ \E s \in StartStrs : startDateStr' = s
    /\ FetchData
    /\ CallProcessData

\* submitKey: fetch, then processData.  The key names one account: a fetch
\* after the first delivers the same progressions.
SubmitKey ==
    /\ pc \in Quiet
    /\ IF data = <<>>
       THEN FetchData
       ELSE data' = data
    /\ CallProcessData
    /\ UNCHANGED startDateStr

\* changeStart: store the new start date; processData if there is data.
ChangeStart ==
    /\ pc \in Quiet
    /\ \E s \in StartStrs : startDateStr' = s
    /\ IF data # <<>>
       THEN CallProcessData
       ELSE UNCHANGED pc /\ UNCHANGED Locals
    /\ UNCHANGED data

(***************************************************************************)
(* processData, stage by stage.                                            *)
(***************************************************************************)
\* The history builder; history[0].x throws on an empty list.
Build ==
    /\ pc = "build"
    /\ IF Len(data[1]) = 0
       THEN /\ pc' = "error"
            /\ UNCHANGED <<history, i>>
       ELSE /\ history' = BuildHistory(data[1], startDateStr)
            /\ i' = 2
            /\ pc' = "forecast"
    /\ UNCHANGED <<data, startDateStr, avgHours, forecasts, speed, limit>>

\* computeForecasts: one turn of the loop.
ForecastStep ==
    /\ pc = "forecast"
    /\ i <= Len(history)
    /\ avgHours' = ForecastPair(avgHours, history, i)
    /\ i' = i + 1
    /\ UNCHANGED <<pc, data, startDateStr, history, forecasts, speed, limit>>

\* computeForecasts: after the loop; last.y throws on an empty history.
ForecastReturn ==
    /\ pc = "forecast"
    /\ i > Len(history)
    /\ IF Len(history) = 0
       THEN /\ pc' = "error"
            /\ UNCHANGED forecasts
       ELSE /\ forecasts' = ForecastLines(avgHours, history)
            /\ pc' = "segment"
    /\ UNCHANGED <<data, startDateStr, history, i, avgHours, speed, limit>>

\* The gap segmenter.
Segment ==
    /\ pc = "segment"
    /\ history' = Segmenter(history)
    /\ i' = 1
    /\ pc' = "speed"
    /\ UNCHANGED <<data, startDateStr, avgHours, forecasts, speed, limit>>

\* The speed estimator: the callback on history[i].
SpeedStep ==
    /\ pc = "speed"
    /\ i <= Len(history)
    /\ speed' = speed \o SpeedItem(history, i)
    /\ i' = i + 1
    /\ UNCHANGED <<pc, data, startDateStr, history, avgHours, forecasts, limit>>

\* makeChart(history, forecasts, speed): the datasets charted are the three
\* locals as they stand at "done".
MakeChart ==
    /\ pc = "speed"
    /\ i > Len(history)
    /\ limit' = ForecastLimit(forecasts)
    /\ pc' = "done"
    /\ UNCHANGED <<data, startDateStr, history, i, avgHours, forecasts, speed>>

Next ==
    \/ MainNoKey
    \/ MainWithKey
    \/ SubmitKey
    \/ ChangeStart
    \/ Build
    \/ ForecastStep
    \/ ForecastReturn
    \/ Segment
    \/ SpeedStep
    \/ MakeChart

Spec == Init /\ [][Next]_vars

(***************************************************************************)
(* Properties.                                                             *)
(***************************************************************************)
\* Some element of the series is a gap marker.
HasGap(series) == \E k \in 1..Len(series) : IsGap(series[k])

\* C1: whatever history the gap segmenter is given, its output with the
\* gap markers removed is that history: the same Points in the same order,
\* none added, dropped or altered.
SegmenterRoundTrip ==
    [][pc = "segment" => RemoveGaps(history') = history]_vars

\* The segmenter has run on a history of three Points or more and has put
\* in a gap marker.
SegmenterRoundTripWitness ==
    /\ pc = "speed"
    /\ i = 1
    /\ HasGap(history)
    /\ Len(RemoveGaps(history)) >= 3

\* The pair (hist[k - 1], hist[k]) is a break: the level falls, or the
\* Points are GAP_MONTHS whole months or more apart.
GapDue(hist, k) ==
    /\ k >= 2
    /\ \/ hist[k].y < hist[k - 1].y
       \/ GeJS(DifferenceInMonths(hist[k].x, hist[k - 1].x), GAP_MONTHS)
\* The breaks among the pairs that end at hist[2] .. hist[k].
GapsUpTo(hist, k) == Cardinality({j \in 2..k : GapDue(hist, j)})

\* C2: in the segmenter's output a gap marker immediately precedes the
\* input element cur (index >= 1) exactly when the level falls from its
\* predecessor or the two are 6 whole months or more apart; one marker per
\* such pair, so the output is as long as the input plus the number of such
\* pairs (none for a history with no such pair).
SegmenterGaps ==
    [][pc = "segment" =>
        /\ Len(history') = Len(history) + GapsUpTo(history, Len(history))
        /\ \A k \in 1..Len(history) :
              LET pos == k + GapsUpTo(history, k)
              IN  /\ history'[pos] = history[k]
                  /\ k >= 2 => (IsGap(history'[pos - 1]) <=> GapDue(history, k))
      ]_vars

\* The segmenter has run on a history with a break and a pair that is none.
SegmenterGapsWitness ==
    /\ pc = "speed"
    /\ i = 1
    /\ Len(history) >= 4
    /\ \E k \in 2..Len(history) : IsGap(history[k])
    /\ \E k \in 2..Len(history) : ~IsGap(history[k]) /\ ~IsGap(history[k - 1])

\* A Point below the speed estimator's low-level cutoff.
LowLevel(item) == ~IsGap(item) /\ item.y < LOW_LEVEL
\* What the speed callback has just added holds gap markers only.
NoSampleEmitted ==
    \A k \in (Len(speed) + 1)..Len(speed') : IsGap(speed'[k])
\* What the speed callback has just added holds no sample with a number for
\* its rate (a rate NaN is none).
NoNumericSampleEmitted ==
    \A k \in (Len(speed) + 1)..Len(speed') :
        IsGap(speed'[k]) \/ speed'[k].y = <<0, 0>>
\* The speed callback is about to run on the pair (history[i-1], history[i]).
SpeedPair == pc = "speed" /\ i >= 2 /\ i <= Len(history)

\* C3 as it is stated: the speed estimator emits no numeric sample from a
\* pair (prev, cur) in which either element is a gap marker or either
\* element is a low-level Point (y < 3).
SpeedNeverFromGapOrLowLevel ==
    [][(SpeedPair /\ (\/ IsGap(history[i - 1]) \/ IsGap(history[i])
                     \/ LowLevel(history[i - 1]) \/ LowLevel(history[i])))
        => NoNumericSampleEmitted]_vars

\* C3, amended: the speed estimator emits no numeric sample from a pair
\* (prev, cur) in which either element is a gap marker or cur is a
\* low-level Point (cur.y < 3); a low-level prev does not suppress it.
SpeedNeverFromGapOrLowCur ==
    [][(SpeedPair /\ (\/ IsGap(history[i - 1]) \/ IsGap(history[i])
                     \/ LowLevel(history[i])))
        => NoSampleEmitted]_vars

\* The speed callback has run on a Point of level index 3 or more that
\* follows a gap marker, and on a low-level Point that follows a Point.
SpeedNeverWitness ==
    /\ pc = "speed"
    /\ i > Len(history)
    /\ \E k \in 3..Len(history) :
          IsGap(history[k - 1]) /\ ~IsGap(history[k]) /\ history[k].y >= LOW_LEVEL
    /\ \E k \in 2..Len(history) :
          ~IsGap(history[k - 1]) /\ LowLevel(history[k])

\* Whole months between the Points of the pair (hist[k - 1], hist[k]).
PairMonths(hist, k) == DifferenceInMonths(hist[k].x, hist[k - 1].x)
\* computeForecasts skips every pair of hist.
AllPairsSkipped(hist) ==
    \A k \in 2..Len(hist) : GeJS(PairMonths(hist, k), SKIP_MONTHS)
\* computeForecasts has returned its lines and history is still its argument.
Forecasted == pc = "segment"

\* C4: when every consecutive pair of the history is 3 whole months or
\* more apart, so that both averages stay uninitialized, the projection of
\* each forecast line is an explicit undefined, not-renderable result, and
\* not a time equal to the last Point's (a zero-duration forecast).
UninitializedForecastUndefined ==
    (Forecasted /\ Len(history) >= 2 /\ AllPairsSkipped(history)) =>
        \A k \in 1..2 :
            /\ forecasts[k][2].x \in {Undefined, NaT}
            /\ forecasts[k][2].x # history[Len(history)].x

\* C5: a pair 3 (SKIP_MONTHS) whole months or more apart leaves both
\* running averages as they were (uninitialized stays uninitialized); only
\* a pair less than 3 whole months apart changes an average.
SkippedPairKeepsAverages ==
    [][(pc = "forecast" /\ i <= Len(history)) =>
        /\ GeJS(PairMonths(history, i), SKIP_MONTHS) => avgHours' = avgHours
        /\ avgHours' # avgHours => LtJS(PairMonths(history, i), SKIP_MONTHS)
      ]_vars

\* The loop has passed a skipped pair with the averages already set.
SkippedPairWitness ==
    /\ pc = "forecast"
    /\ i >= 4
    /\ GeJS(PairMonths(history, i - 1), SKIP_MONTHS)
    /\ avgHours[1] # NullAvg
    /\ avgHours[2] # NullAvg

\* x plus avg hours times n, in the whole units a Date holds.
PlusHours(x, avg, n) ==
    IF x = NaT THEN NaT ELSE x + Trunc(avg[1] * n, avg[2])

\* C6: computeForecasts returns exactly two lines; for each final average
\* avg the line is [ {x: last.x, y: last.y}, {x: last.x + avg hours *
\* (60 - last.y), y: 60} ], last the final element of the history; and the
\* first pair that is not skipped sets both averages to its elapsed hours.
ForecastLinesAsStated ==
    [][pc = "forecast" =>
        /\ pc' = "segment" =>
              LET last == history[Len(history)]
              IN  /\ Len(forecasts') = 2
                  /\ \A k \in 1..2 :
                        /\ Len(forecasts'[k]) = 2
                        /\ forecasts'[k][1] = Point(last.x, last.y)
                        /\ forecasts'[k][2].y = MAX_LEVEL
                        /\ avgHours[k] # NullAvg =>
                              forecasts'[k][2].x =
                                  PlusHours(last.x, avgHours[k], MAX_LEVEL - last.y)
        /\ (/\ i <= Len(history)
            /\ avgHours = <<NullAvg, NullAvg>>
            /\ LtJS(PairMonths(history, i), SKIP_MONTHS)) =>
              LET hours == history[i].x - history[i - 1].x
              IN  avgHours' = <<Frac(hours), Frac(hours)>>
      ]_vars

\* The history [(t0, 0), (t0 + 30 days, 1)] has been forecast: both averages
\* are 720 hours and both lines end at t0 + 30 days + 720 hours * 59.
ForecastLinesWitness ==
    /\ Forecasted
    /\ history = <<Point(0, 0), Point(720, 1)>>
    /\ avgHours = <<Frac(720), Frac(720)>>
    /\ \A k \in 1..2 : forecasts[k][2] = Point(720 + 720 * 59, MAX_LEVEL)

\* An unlocked_at, or the last record's passed_at, is no ISO date.
HasMalformed(levels) ==
    \E k \in 1..Len(levels) :
        \/ levels[k].unlocked_at = Malformed
        \/ k = Len(levels) /\ levels[k].passed_at = Malformed
\* The builder has just run on a list that is not empty.
Built == pc = "forecast" /\ i = 2
\* The later of the cutoff and the first record's unlock time.
EffectiveStart ==
    LET first == ParseISO(data[1][1].unlocked_at)
        cutoff == ParseISO(startDateStr)
    IN  IF startDateStr = EmptyStr THEN first
        ELSE IF first = NaT \/ cutoff = NaT THEN NaT
        ELSE IF cutoff > first THEN cutoff ELSE first
\* The Point of record k, and the completion Point.
UnlockPoint(k) == Point(ParseISO(data[1][k].unlocked_at), data[1][k].level - 1)
CompletionPoint ==
    LET last == data[1][Len(data[1])]
    IN  Point(ParseISO(last.passed_at), last.level)
LastPassed == data[1][Len(data[1])].passed_at # Null
\* The Points of the built history that come from the records' unlocks.
UnlockPart ==
    IF LastPassed THEN SubSeq(history, 1, Len(history) - 1) ELSE history

\* C7 as it is stated (on well-formed timestamps): the built history holds
\* no Point with x strictly before the effective start, the later of the
\* cutoff and the first unlock, and every mapped Point at or after it.
BuilderCutsAllBeforeStart ==
    (Built /\ ~HasMalformed(data[1])) =>
        /\ \A k \in 1..Len(history) : history[k].x >= EffectiveStart
        /\ \A k \in 1..Len(data[1]) :
              UnlockPoint(k).x >= EffectiveStart =>
                  \E j \in 1..Len(history) : history[j] = UnlockPoint(k)

\* The records whose unlock Point is at or after the effective start.
KeptRecords == {k \in 1..Len(data[1]) : DateGe(UnlockPoint(k).x, EffectiveStart)}

\* C7, amended: the effective start is the later of the cutoff and the first
\* unlock; of the mapped Points the built history holds, in their order,
\* exactly those with x at or after it; the completion Point of a last
\* record with a passed_at follows them whatever its time.  So a cutoff
\* later than the first unlock drops every earlier unlock Point, and one at
\* or before it gives the history that no cutoff gives.
BuilderCutsUnlocksBeforeStart ==
    Built =>
        /\ Len(history) = Len(UnlockPart) + (IF LastPassed THEN 1 ELSE 0)
        /\ Len(UnlockPart) = Cardinality(KeptRecords)
        /\ \A j \in 1..Len(UnlockPart) :
              \E k \in KeptRecords :
                  /\ UnlockPart[j] = UnlockPoint(k)
                  /\ Cardinality({m \in KeptRecords : m <= k}) = j
        /\ LastPassed => history[Len(history)] = CompletionPoint
        /\ (startDateStr # EmptyStr
              /\ DateGe(ParseISO(data[1][1].unlocked_at), ParseISO(startDateStr)))
             => history = BuildHistory(data[1], EmptyStr)

\* The builder has run with a cutoff later than the first unlock that drops
\* some unlock Points and keeps others.
BuilderCutsWitness ==
    /\ Built
    /\ startDateStr # EmptyStr
    /\ ParseISO(data[1][1].unlocked_at) # NaT
    /\ ParseISO(startDateStr) > ParseISO(data[1][1].unlocked_at)
    /\ KeptRecords # {}
    /\ Cardinality(KeptRecords) < Len(data[1])

\* C8 (on well-formed timestamps): for a record list that is not empty and
\* any cutoff, the built history is not empty and ends with the Point of
\* the most recent unlock or, when the last record has a passed_at, with
\* the completion Point.
BuiltHistoryEndsWithLatest ==
    (Built /\ ~HasMalformed(data[1])) =>
        /\ Len(history) >= 1
        /\ history[Len(history)] =
              IF LastPassed THEN CompletionPoint ELSE UnlockPoint(Len(data[1]))

\* C9 (on well-formed timestamps): on an empty record list, or a history of
\* fewer than 2 Points, the pipeline fails: computeForecasts returns no
\* lines and makeChart is not reached.
ForecastNeedsTwoPoints ==
    ((forecasts # <<>> \/ pc = "done") /\ ~HasMalformed(data[1])) =>
        /\ Len(data[1]) >= 1
        /\ Len(RemoveGaps(history)) >= 2

\* C10: when a timestamp is malformed the builder rejects the whole input:
\* no forecast is returned, no speed series is built and nothing is charted.
MalformedRejected ==
    (data # <<>> /\ HasMalformed(data[1])) =>
        /\ pc \notin {"segment", "speed", "done"}
        /\ forecasts = <<>>
        /\ speed = <<>>

\* history is the gap-segmented series.
Segmented == pc \in {"speed", "done"}

\* C11: in the gap-segmented history a gap marker is never the first
\* element, never the last, and never next to another gap marker: each
\* sits between two Points.
GapsBetweenPoints ==
    Segmented =>
        \A k \in 1..Len(history) :
            IsGap(history[k]) =>
                /\ k > 1
                /\ k < Len(history)
                /\ ~IsGap(history[k - 1])
                /\ ~IsGap(history[k + 1])

\* The segmented history holds two gap markers.
GapsBetweenPointsWitness ==
    /\ Segmented
    /\ \E j, k \in 1..Len(history) :
          j < k /\ IsGap(history[j]) /\ IsGap(history[k])

\* Two fractions are the same number (denominators not 0).
FracEq(a, b) == a[1] * b[2] = b[1] * a[2]
\* alpha * hours + (1 - alpha) * old, alpha the k-th of 1/2 and 1/4.
Smoothed(old, k, hours) ==
    IF k = 1 THEN <<hours * old[2] + old[1], 2 * old[2]>>
    ELSE <<hours * old[2] + 3 * old[1], 4 * old[2]>>

\* C12: a pair that is not skipped updates each average: to the pair's
\* elapsed hours if no earlier pair was counted (the average is still
\* null), else to alpha * hours + (1 - alpha) * old, alpha 0.5 for the
\* first and 0.25 for the second, whatever values old and hours have.
SmoothingAsStated ==
    [][(/\ pc = "forecast"
        /\ i <= Len(history)
        /\ LtJS(PairMonths(history, i), SKIP_MONTHS)) =>
          LET hours == history[i].x - history[i - 1].x
          IN  \A k \in 1..2 :
                IF avgHours[k] = NullAvg
                THEN avgHours'[k] = Frac(hours)
                ELSE FracEq(avgHours'[k], Smoothed(avgHours[k], k, hours))
      ]_vars

\* C13: for each pair (prev, cur) of the segmented history with both real
\* Points and cur.y >= 3 the speed estimator emits exactly one sample,
\* y = (cur.y - prev.y) / (wholeDays(cur.x - prev.x) / 30), x the midpoint
\* of prev.x and cur.x (in the whole units of a Date); for each cur that is
\* a gap marker exactly one gap marker; for every other element nothing.
SpeedSamplesAsStated ==
    [][(pc = "speed" /\ i <= Len(history)) =>
        LET cur == history[i]
            emitted == SubSeq(speed', Len(speed) + 1, Len(speed'))
        IN  /\ SubSeq(speed', 1, Len(speed)) = speed
            /\ IF IsGap(cur)
               THEN Len(emitted) = 1 /\ IsGap(emitted[1])
               ELSE IF i >= 2 /\ ~IsGap(history[i - 1]) /\ cur.y >= 3
               THEN LET prev == history[i - 1]
                        valid == cur.x # NaT /\ prev.x # NaT
                        days == Trunc(cur.x - prev.x, HoursPerDay)
                    IN  /\ Len(emitted) = 1
                        /\ ~IsGap(emitted[1])
                        /\ emitted[1].x =
                              IF valid THEN (prev.x + cur.x) \div 2 ELSE NaT
                        /\ emitted[1].y =
                              IF valid THEN <<30 * (cur.y - prev.y), days>>
                              ELSE <<0, 0>>
               ELSE Len(emitted) = 0
      ]_vars

\* The speed estimator has emitted a sample, then a gap marker, and has
\* passed a Point it emits nothing for.
SpeedSamplesWitness ==
    /\ pc = "speed"
    /\ i > Len(history)
    /\ Len(speed) >= 2
    /\ ~IsGap(speed[1])
    /\ speed[1].y[2] > 0
    /\ IsGap(speed[2])
    /\ Len(speed) < Len(history) - 1

\* C14 (on well-formed timestamps): every numeric sample of the speed
\* series has a finite rate that is not negative: the divisor
\* wholeDays(cur.x - prev.x) / 30 of a pair that yields a sample is not 0.
SpeedFiniteNonNegative ==
    (data # <<>> /\ ~HasMalformed(data[1])) =>
        \A k \in 1..Len(speed) :
            ~IsGap(speed[k]) => (speed[k].y[2] > 0 /\ speed[k].y[1] >= 0)

=============================================================================
